---- MODULE Spec2Model ----
(***************************************************************************)
(* ComponentWidget of qiskit_metal/_gui/widgets/edit_component/            *)
(* component_widget.py: the binding between the selected component name    *)
(* and the three dependent views (parameter table, help pane, source       *)
(* pane), together with the host's design registry it reads.               *)
(*                                                                         *)
(* Text is modelled as a sequence of string tokens (one token per word or  *)
(* line); None is the token "None".  A call of a method is one action; the *)
(* handler's statements are composed from operators on a frame record that *)
(* carries the widget's fields, the log of the calls the handler made on   *)
(* its collaborators, whether an exception is propagating, and the call's  *)
(* input from the file system (whether Path.read_text succeeds).           *)
(***************************************************************************)
EXTENDS Naturals, Sequences, FiniteSets, TLC

VARIABLES
    component_name,   \* self.component_name
    src_widgets,      \* self.src_widgets: the retained editor widgets
    html_css_lex,     \* self._html_css_lex
    textHelp,         \* content of self.ui.textHelp
    src_doc,          \* content of self.src_doc (document of ui.textSource)
    src_stylesheet,   \* default stylesheet of self.src_doc
    lineSourcePath,   \* text of self.ui.lineSourcePath
    windowTitle,      \* title of the widget
    parentTitle,      \* title of self.parent()
    gui,              \* the host: gui.design and its components registry
    highlight,        \* module global: TRUE iff pygments was imported
    call              \* the last call: method, argument, outcome, call log

vars == <<component_name, src_widgets, html_css_lex, textHelp, src_doc,
          src_stylesheet, lineSourcePath, windowTitle, parentTitle, gui,
          highlight, call>>

----------------------------------------------------------------------------
(* Bounds and the universe of the host's objects                           *)

MaxEditors == 2

None == "None"

RegNames == {"Q1", "Q2"}

NameArgs == RegNames \cup {"", None}

Classes == {"TransmonPocket", "RouteMeander"}

Components == {"c1", "c2", "c3"}

CompName == [c \in Components |->
    CASE c = "c1" -> "Q1"
      [] c = "c2" -> "Q2"
      [] c = "c3" -> "Q1"]

CompClass == [c \in Components |->
    CASE c = "c1" -> "TransmonPocket"
      [] c = "c2" -> "RouteMeander"
      [] c = "c3" -> "RouteMeander"]

ClassModule == [k \in Classes |->
    CASE k = "TransmonPocket" -> "qiskit_metal.components.qubits.transmon_pocket"
      [] k = "RouteMeander" -> "qiskit_metal.components.interconnects.meandered"]

ClassFile == [k \in Classes |->
    CASE k = "TransmonPocket" -> "/metal/components/qubits/transmon_pocket.py"
      [] k = "RouteMeander" -> "/metal/components/interconnects/meandered.py"]

Files == {ClassFile[k] : k \in Classes}

FileText == [f \in Files |->
    IF f = ClassFile["TransmonPocket"]
    THEN <<"", "class TransmonPocket(BaseQubit):", "    pass", "">>
    ELSE <<"class RouteMeander(QRoute):", "    pass">>]

NoDoc == [isNone |-> TRUE, s |-> <<>>]

Str(s) == [isNone |-> FALSE, s |-> s]

ClassDoc == [k \in Classes |->
    IF k = "TransmonPocket"
    THEN Str(<<"The", " ", "base", " ", "TransmonPocket", " ", "class", "\n">>)
    ELSE NoDoc]

InitDoc == [k \in Classes |->
    IF k = "TransmonPocket"
    THEN NoDoc
    ELSE Str(<<" ", "Create", " ", "the", " ", "route">>)]

EmptyRegistry == [n \in RegNames |-> None]

Registries == {r \in [RegNames -> Components \cup {None}] :
                  \A n \in RegNames : r[n] # None => CompName[r[n]] = n}

----------------------------------------------------------------------------
(* Text helpers                                                            *)

IsSpace(t) == t \in {"", " ", "\n"}

RECURSIVE lstrip(_)
lstrip(s) == IF s # <<>> /\ IsSpace(Head(s)) THEN lstrip(Tail(s)) ELSE s

RECURSIVE rstrip(_)
rstrip(s) == IF s # <<>> /\ IsSpace(s[Len(s)])
             THEN rstrip(SubSeq(s, 1, Len(s) - 1))
             ELSE s

strip(s) == rstrip(lstrip(s))

Contains(s, t) == \E i \in 1..Len(s) : s[i] = t

RECURSIVE ContainsSeq(_, _)
ContainsSeq(s, sub) ==
    IF Len(sub) > Len(s) THEN FALSE
    ELSE \/ SubSeq(s, 1, Len(sub)) = sub
         \/ (s # <<>> /\ ContainsSeq(Tail(s), sub))

IsPrefix(p, s) == Len(p) <= Len(s) /\ SubSeq(s, 1, Len(p)) = p

format_docstr(doc) ==
    IF doc.isNone THEN <<>>
    ELSE <<"<pre>", "<code class=DocString>">> \o strip(doc.s)
         \o <<"</code>", "</pre>">>

RECURSIVE numbered(_, _)
numbered(lines, i) ==
    IF lines = <<>> THEN <<>>
    ELSE <<"<span class=linenos>", ToString(i), "</span>", Head(lines)>>
         \o numbered(Tail(lines), i + 1)

highlight_html(text) ==
    <<"<div class=highlight>", "<pre>">> \o numbered(strip(text), 1)
    \o <<"</pre>", "</div>">>

style_defs == <<".highlight", "{", "background", "}">>

NoStyle == <<>>

EmptyDoc == [format |-> "empty", content |-> <<>>]

----------------------------------------------------------------------------
(* The frame a handler runs on                                             *)

Frame(read_ok) ==
    [read_ok |-> read_ok, component_name |-> component_name, src_widgets |-> src_widgets,
     html_css_lex |-> html_css_lex, textHelp |-> textHelp,
     src_doc |-> src_doc, src_stylesheet |-> src_stylesheet,
     lineSourcePath |-> lineSourcePath, windowTitle |-> windowTitle,
     parentTitle |-> parentTitle, raised |-> FALSE, log |-> <<>>]

Log(m, e) == [m EXCEPT !.log = Append(@, e)]

Raise(m) == [m EXCEPT !.raised = TRUE]

Commit(m, op, arg) ==
    /\ component_name' = m.component_name
    /\ src_widgets' = m.src_widgets
    /\ html_css_lex' = m.html_css_lex
    /\ textHelp' = m.textHelp
    /\ src_doc' = m.src_doc
    /\ src_stylesheet' = m.src_stylesheet
    /\ lineSourcePath' = m.lineSourcePath
    /\ windowTitle' = m.windowTitle
    /\ parentTitle' = m.parentTitle
    /\ call' = [op |-> op, arg |-> arg, raised |-> m.raised, log |-> m.log]
    /\ UNCHANGED <<gui, highlight>>

----------------------------------------------------------------------------
(* Properties and methods of ComponentWidget                               *)

design == gui.has_design

component(cn) ==
    IF design
    THEN IF cn \in RegNames THEN gui.components[cn] ELSE None
    ELSE None

label_text(c) ==
    <<CompName[c], ":", CompClass[c], ":", ClassModule[CompClass[c]]>>

help_html_class_as_name(c) ==
    <<"<body>", "Summary:",
      "Name", CompClass[c],
      "Class", CompClass[c],
      "Module", ClassModule[CompClass[c]],
      "Path", ClassFile[CompClass[c]],
      "Class docstring:">>
    \o format_docstr(ClassDoc[CompClass[c]])
    \o <<"Init docstring:">>
    \o format_docstr(InitDoc[CompClass[c]])
    \o <<"</body>">>

help_html(c) ==
    <<"<body>", "Summary:",
      "Name", CompName[c],
      "Class", CompClass[c],
      "Module", ClassModule[CompClass[c]],
      "Path", ClassFile[CompClass[c]],
      "Class docstring:">>
    \o format_docstr(ClassDoc[CompClass[c]])
    \o <<"Init docstring:">>
    \o format_docstr(InitDoc[CompClass[c]])
    \o <<"</body>">>

force_refresh(m) ==
    IF m.raised THEN m ELSE Log(m, "model.refresh")

_set_help_clears(m) ==
    IF m.raised THEN m
    ELSE LET c == component(m.component_name)
             m1 == Log(m, "_set_help")
         IN IF c = None THEN [m1 EXCEPT !.textHelp = <<>>]
            ELSE [m1 EXCEPT !.textHelp = help_html(c)]

_set_help(m) ==
    IF m.raised THEN m
    ELSE LET c == component(m.component_name)
             m1 == Log(m, "_set_help")
         IN IF c = None THEN m1
            ELSE [m1 EXCEPT !.textHelp = help_html(c)]

_set_source_plain(m) ==
    IF m.raised THEN m
    ELSE LET c == component(m.component_name)
             m1 == Log(m, "_set_source")
         IN IF c = None THEN Raise(m1)
            ELSE LET filepath == ClassFile[CompClass[c]]
                     m2 == [m1 EXCEPT !.lineSourcePath = filepath]
                     text == FileText[filepath]
                 IN IF ~m.read_ok THEN Raise(m2)
                    ELSE [m2 EXCEPT
                            !.src_doc = [format |-> "plain",
                                         content |-> text]]

_set_source(m) ==
    IF m.raised THEN m
    ELSE LET c == component(m.component_name)
             m1 == Log(m, "_set_source")
         IN IF c = None THEN Raise(m1)
            ELSE LET filepath == ClassFile[CompClass[c]]
                     m2 == [m1 EXCEPT !.lineSourcePath = filepath]
                     text == FileText[filepath]
                 IN IF ~m.read_ok THEN Raise(m2)
                    ELSE IF highlight
                    THEN [m2 EXCEPT
                            !.html_css_lex = style_defs,
                            !.src_stylesheet = style_defs,
                            !.src_doc = [format |-> "html",
                                         content |-> highlight_html(text)]]
                    ELSE [m2 EXCEPT
                            !.src_doc = [format |-> "plain",
                                         content |-> text]]

set_labels(m) ==
    IF m.raised THEN m
    ELSE LET c == component(m.component_name)
             m1 == Log(m, "component")
         IN IF c = None THEN Raise(m1)
            ELSE Log([m1 EXCEPT !.windowTitle = label_text(c),
                                !.parentTitle = label_text(c)],
                     "setWindowTitle")

autoresize_columns(m) ==
    IF m.raised THEN m ELSE Log(m, "autoresize_columns")

set_component_help_first(m, name) ==
    LET m1 == Log([m EXCEPT !.component_name = name], "component_name")
    IN IF name = None
       THEN force_refresh(m1)
       ELSE autoresize_columns(
                force_refresh(_set_source(_set_help(set_labels(m1)))))

set_component(m, name) ==
    LET m1 == Log([m EXCEPT !.component_name = name], "component_name")
    IN IF name = None
       THEN force_refresh(m1)
       ELSE autoresize_columns(
                force_refresh(_set_help(_set_source(set_labels(m1)))))

edit_source_replace(m) ==
    LET c == component(m.component_name)
    IN IF c # None
       THEN Log(Log([m EXCEPT !.src_widgets =
                        <<[class_name |-> CompClass[c],
                           module_name |-> ClassModule[CompClass[c]],
                           module_path |-> ClassFile[CompClass[c]]]>>],
                    "create_source_edit_widget"),
                "logger.info")
       ELSE Log(m, "QMessageBox.warning")

edit_source_by_name(m) ==
    LET c == component(m.component_name)
    IN IF m.component_name # None
       THEN IF c = None
            THEN Raise(m)
            ELSE Log(Log([m EXCEPT !.src_widgets =
                        @ \o <<[class_name |-> CompClass[c],
                                module_name |-> ClassModule[CompClass[c]],
                                module_path |-> ClassFile[CompClass[c]]]>>],
                    "create_source_edit_widget"),
                "logger.info")
       ELSE Log(m, "QMessageBox.warning")

edit_source(m) ==
    LET c == component(m.component_name)
    IN IF c # None
       THEN Log(Log([m EXCEPT !.src_widgets =
                        @ \o <<[class_name |-> CompClass[c],
                                module_name |-> ClassModule[CompClass[c]],
                                module_path |-> ClassFile[CompClass[c]]]>>],
                    "create_source_edit_widget"),
                "logger.info")
       ELSE Log(m, "QMessageBox.warning")

----------------------------------------------------------------------------
(* State after construction, and the calls                                 *)

Init ==
    /\ component_name = None
    /\ src_widgets = <<>>
    /\ html_css_lex = NoStyle
    /\ textHelp = <<>>
    /\ src_doc = EmptyDoc
    /\ src_stylesheet = NoStyle
    /\ lineSourcePath = ""
    /\ windowTitle = <<>>
    /\ parentTitle = <<>>
    /\ gui \in {[has_design |-> d, components |-> EmptyRegistry] :
                   d \in BOOLEAN}
    /\ highlight \in BOOLEAN
    /\ call = [op |-> "__init__", arg |-> None, raised |-> FALSE,
               log |-> <<"setupUi", "setModel", "create_QTextDocument",
                         "setDefaultStyleSheet">>]

Call_set_component ==
    \E name \in NameArgs, read_ok \in BOOLEAN :
        /\ highlight \in BOOLEAN
        /\ Commit(set_component(Frame(read_ok), name), "set_component", name)

Call_force_refresh ==
    /\ highlight \in BOOLEAN
    /\ Commit(force_refresh(Frame(TRUE)), "force_refresh", None)

Call_set_help ==
    /\ highlight \in BOOLEAN
    /\ Commit(_set_help(Frame(TRUE)), "_set_help", None)

Call_set_source ==
    \E read_ok \in BOOLEAN :
        /\ highlight \in BOOLEAN
        /\ Commit(_set_source(Frame(read_ok)), "_set_source", None)

Call_edit_source ==
    /\ component(component_name) # None => Len(src_widgets) < MaxEditors
    /\ Commit(edit_source(Frame(TRUE)), "edit_source", None)

HostStep ==
    /\ call' = [op |-> "host", arg |-> None, raised |-> FALSE, log |-> <<>>]
    /\ UNCHANGED <<component_name, src_widgets, html_css_lex, textHelp,
                   src_doc, src_stylesheet, lineSourcePath, windowTitle,
                   parentTitle, highlight>>

HostSetEntry ==
    /\ gui.has_design
    /\ \E n \in RegNames, c \in Components :
          /\ CompName[c] = n
          /\ gui.components[n] # c
          /\ gui' = [gui EXCEPT !.components[n] = c]
    /\ HostStep

HostRemoveEntry ==
    /\ gui.has_design
    /\ \E n \in RegNames :
          /\ gui.components[n] # None
          /\ gui' = [gui EXCEPT !.components[n] = None]
    /\ HostStep

HostCloseDesign ==
    /\ gui.has_design
    /\ gui' = [has_design |-> FALSE, components |-> EmptyRegistry]
    /\ HostStep

HostNewDesign ==
    /\ ~gui.has_design
    /\ gui' = [has_design |-> TRUE, components |-> EmptyRegistry]
    /\ HostStep

Next ==
    \/ Call_set_component
    \/ Call_force_refresh
    \/ Call_set_help
    \/ Call_set_source
    \/ Call_edit_source
    \/ HostSetEntry
    \/ HostRemoveEntry
    \/ HostCloseDesign
    \/ HostNewDesign

Spec == Init /\ [][Next]_vars

TypeOK ==
    /\ component_name \in NameArgs
    /\ Len(src_widgets) <= MaxEditors
    /\ gui.has_design \in BOOLEAN
    /\ gui.components \in Registries
    /\ highlight \in BOOLEAN
    /\ call.raised \in BOOLEAN

----------------------------------------------------------------------------
(* Vocabulary of the properties                                            *)

Registered(n) ==
    gui.has_design /\ n \in RegNames /\ gui.components[n] # None

Count(s, e) == Cardinality({i \in 1..Len(s) : s[i] = e})

Index(s, e) == CHOOSE i \in 1..Len(s) : s[i] = e

Row(doc, header) ==
    IF Contains(doc, header) /\ Index(doc, header) < Len(doc)
    THEN doc[Index(doc, header) + 1]
    ELSE None

StepOrder ==
    <<"component_name", "component", "setWindowTitle", "_set_source",
      "_set_help", "model.refresh", "autoresize_columns">>

AfterSetComponent == call.op = "set_component"

Returned == ~call.raised

----------------------------------------------------------------------------
(* C1: set_component with a name that is not a key of the registry (and is *)
(* not None) returns without raising, and the component resolved           *)
(* afterwards is absent.                                                   *)
C1_MissingNameDoesNotRaise ==
    (AfterSetComponent /\ call.arg # None /\ ~Registered(call.arg))
        => (Returned /\ component(component_name) = None)

(* C2: set_component(None) and set_component("") never raise, leave no     *)
(* component bound, refresh the parameter table, and do not run the window *)
(* title, source pane or help pane code.                                   *)
C2_EmptyValueClears ==
    (AfterSetComponent /\ call.arg \in {None, ""})
        => /\ Returned
           /\ component(component_name) = None
           /\ Count(call.log, "model.refresh") = 1
           /\ ~Contains(call.log, "setWindowTitle")
           /\ ~Contains(call.log, "_set_source")
           /\ ~Contains(call.log, "_set_help")

(* C3: once a set_component call has returned or aborted, the views all    *)
(* reflect the value passed: when it names a registered component and the  *)
(* call returned, the table was refreshed and the help and source panes    *)
(* show that component; when the selection resolves to no component, the   *)
(* help and source panes show none (they are as after construction).       *)
C3_ViewsConsistent ==
    AfterSetComponent
        => IF Registered(component_name)
           THEN Returned =>
                   /\ Contains(call.log, "model.refresh")
                   /\ Row(textHelp, "Name") = component_name
                   /\ Row(textHelp, "Class")
                        = CompClass[gui.components[component_name]]
                   /\ lineSourcePath
                        = ClassFile[CompClass[gui.components[component_name]]]
                   /\ src_doc.format # "empty"
           ELSE /\ textHelp = <<>>
                /\ src_doc = EmptyDoc

(* C4: for a name other than None, set_component stores the name, resolves *)
(* the component, sets the window title, refreshes the source pane, the    *)
(* help pane and the table model, and auto-sizes the columns, in that      *)
(* order: the steps of a call are always an initial part of that list, and *)
(* the whole list when the call returns.                                   *)
C4_StepsInOrder ==
    (AfterSetComponent /\ call.arg # None)
        => /\ component_name = call.arg
           /\ IsPrefix(call.log, StepOrder)
           /\ Returned => call.log = StepOrder

C4_Witness ==
    /\ AfterSetComponent
    /\ call.arg \in RegNames
    /\ Returned
    /\ call.log = StepOrder
    /\ windowTitle[1] = call.arg

(* C5: every call of set_component, whatever its argument, calls the table *)
(* model's refresh() exactly once, after the selected name was stored;     *)
(* construction calls refresh() zero times.                                *)
C5_RefreshOncePerCall ==
    /\ AfterSetComponent
         => /\ Count(call.log, "model.refresh") = 1
            /\ Index(call.log, "component_name")
                 < Index(call.log, "model.refresh")
            /\ component_name = call.arg
    /\ call.op = "__init__" => Count(call.log, "model.refresh") = 0

(* C6: edit_source with no component resolved shows exactly one warning,   *)
(* constructs no editor and leaves the retained list unchanged; with a     *)
(* component resolved it shows no dialog and constructs exactly one editor *)
(* for that component's class, appended to the retained list; no step of   *)
(* the program removes or changes an earlier entry of the list.            *)
C6_EditSourceOutcome ==
    [][/\ IsPrefix(src_widgets, src_widgets')
       /\ call'.op # "edit_source" => src_widgets' = src_widgets
       /\ call'.op = "edit_source" =>
            IF Registered(component_name)
            THEN /\ Count(call'.log, "QMessageBox.warning") = 0
                 /\ Count(call'.log, "create_source_edit_widget") = 1
                 /\ Len(src_widgets') = Len(src_widgets) + 1
            ELSE /\ Count(call'.log, "QMessageBox.warning") = 1
                 /\ Count(call'.log, "create_source_edit_widget") = 0
                 /\ src_widgets' = src_widgets]_vars

C6_Witness ==
    /\ call.op = "edit_source"
    /\ Count(call.log, "create_source_edit_widget") = 1
    /\ Len(src_widgets) >= 2
    /\ src_widgets[1].class_name # src_widgets[2].class_name

(* C7: after set_component(name) returns for a registered name, the help   *)
(* pane holds the document of that component: its Name, Class, Module and  *)
(* Path rows are the component's, and it contains the class and init       *)
(* docstring blocks of the component's class.                              *)
C7_HelpShowsSelected ==
    (AfterSetComponent /\ Returned /\ call.arg # None)
        => /\ Registered(call.arg)
           /\ LET k == CompClass[gui.components[call.arg]]
              IN /\ Row(textHelp, "Name") = call.arg
                 /\ Row(textHelp, "Class") = k
                 /\ Row(textHelp, "Module") = ClassModule[k]
                 /\ Row(textHelp, "Path") = ClassFile[k]
                 /\ ContainsSeq(textHelp,
                       <<"Class docstring:">> \o format_docstr(ClassDoc[k])
                       \o <<"Init docstring:">> \o format_docstr(InitDoc[k])
                       \o <<"</body>">>)

C7_Witness ==
    /\ AfterSetComponent
    /\ Returned
    /\ call.arg = "Q1"
    /\ gui.components["Q1"] = "c3"
    /\ Row(textHelp, "Class") = "RouteMeander"
    /\ Len(src_widgets) > 0
    /\ src_widgets[1].class_name = "TransmonPocket"

(* C8: the source pane's mode is the one fixed at startup.  After          *)
(* set_component(name) returns for a registered name: without the          *)
(* highlighter the document is the raw text of the class's source file as  *)
(* plain text and no stylesheet is set; with it the document is            *)
(* highlighted HTML, different from the raw text, and the highlighter's    *)
(* stylesheet is the document default.  In both modes the path field shows *)
(* the source file path.                                                   *)
C8_SourceMode ==
    (AfterSetComponent /\ Registered(call.arg))
        => LET f == ClassFile[CompClass[gui.components[call.arg]]]
           IN /\ lineSourcePath = f
              /\ Returned =>
                   IF highlight
                   THEN /\ src_doc.format = "html"
                        /\ src_doc.content # FileText[f]
                        /\ \A i \in 1..Len(strip(FileText[f])) :
                              Contains(src_doc.content, strip(FileText[f])[i])
                        /\ src_stylesheet = style_defs
                   ELSE /\ src_doc = [format |-> "plain",
                                      content |-> FileText[f]]
                        /\ src_stylesheet = NoStyle

C8_Witness ==
    /\ AfterSetComponent
    /\ Registered(call.arg)
    /\ Returned
    /\ ~highlight
    /\ src_doc.format = "plain"
    /\ src_doc.content = FileText[ClassFile["TransmonPocket"]]

(* C9: when the resolved component is absent, _set_help leaves the help    *)
(* pane's content as it was and does not raise.                            *)
C9_SetHelpAbsentNoUpdate ==
    [][(call'.op = "_set_help" /\ ~Registered(component_name))
         => (textHelp' = textHelp /\ ~call'.raised)]_vars

C9_Witness ==
    /\ call.op = "_set_help"
    /\ ~Registered(component_name)
    /\ component_name \in RegNames
    /\ textHelp # <<>>
    /\ Returned

(* C10: the component is resolved from the registry afresh on every        *)
(* access: edit_source acts on what the registry holds for the selected    *)
(* name when it is called (an editor for the class now registered, or the  *)
(* warning when the entry or the design is gone), whatever set_component   *)
(* resolved earlier.                                                       *)
C10_ResolvedAfresh ==
    [][call'.op = "edit_source" =>
         IF Registered(component_name)
         THEN /\ ~call'.raised
              /\ src_widgets'[Len(src_widgets')].class_name
                   = CompClass[gui.components[component_name]]
         ELSE /\ ~call'.raised
              /\ call'.log = <<"QMessageBox.warning">>]_vars

C10_Witness ==
    /\ call.op = "edit_source"
    /\ call.log = <<"QMessageBox.warning">>
    /\ component_name \in RegNames
    /\ windowTitle # <<>>
    /\ windowTitle[1] = component_name
    /\ ~Registered(component_name)

====
